---- MODULE Spec2Model ----
(***************************************************************************)
(* Model of the RecordKit.Electron RPC runtime: the NSRPC class of        *)
(* src/src/NonstrictRPC.ts (correlation table, closure registry, inbound  *)
(* dispatch), the finalization registry of src/src/finalizationRegistry.ts *)
(* and the transport write of src/src/IpcRecordKit.ts.                     *)
(*                                                                         *)
(* Request ids ("req_" + randomUUID()) and closure targets                 *)
(* ("target_<prefix>_" + randomUUID()) are modelled as fresh integers.     *)
(* JSON objects are records whose DOMAIN is the set of keys present.       *)
(***************************************************************************)
EXTENDS Integers, Sequences, FiniteSets, TLC

(* ------------------------------ bounds -------------------------------- *)
MaxReq == 2         \* requests the application issues in one run
MaxClosures == 2    \* closures registered in one run
MaxOwners == 1      \* lifecycle objects (Recorder instances)
MaxInbound == 2     \* inbound lines delivered in one run
MaxSteps == 5       \* operations (host calls, finalizations, lines) in one run
MaxLiveSteps == 7   \* the same, in runs against an engine that answers as declared
MaxRecorderSteps == 7     \* operations in one run of the Recorder
MaxRecorderInbound == 3   \* inbound lines delivered in one run of the Recorder
MaxLaunches == 2          \* initialize calls on one IpcRecordKit that get as far as spawning

(* --------------------------- value universe --------------------------- *)
Undefined == "undefined"      \* the JS value undefined (string-valued keys)
UndefinedInt == 0 - 1         \* the JS value undefined (number-valued keys)
EmptyObject == "{}"           \* the JS value {}
IntKeys == {"nsrpc", "id", "status", "target"}
\* Keys whose value is an object when the key is set: callers that have no
\* params leave the key out, so its value is never undefined.
ObjectKeys == {"params"}

Owners == 1..MaxOwners              \* the Recorder objects
RecordKitObject == 0                \* the exported RecordKit singleton
OrphanId == 0                       \* an id the host never issued
EngineId == 100                     \* an id chosen by the engine
UnknownTarget == 0                  \* a target the host never registered
RemoteTarget(o) == 200 + o          \* 'Recorder_' + randomUUID()
HandlerKinds == {"value", "void", "throw"}
HandlerResult == "hres"             \* what a "value" handler returns
HandlerError == "herr"              \* what a "throw" handler throws
MissingStdin == "RecordKit: [RPC] !! Missing stdin stream."
AlreadyInitialized == "RecordKit: [RPC] Already initialized."
LaunchError == "spawn ENOENT"       \* the error of the child's 'error' event
ProcessEvents == {"error", "exit", "close"}

VARIABLES
    childProcess,      \* IpcRecordKit.childProcess: "undefined", or the spawned
                       \* ChildProcess: "running" | "exited" | "closed"
    lineHandlers,      \* number of 'line' handlers attached to the engine's stdout
    awaitingSpawn,     \* initialize calls that spawned a child and await its 'spawn'
    stdinClosedAt,     \* Len(sent) when the engine exited; -1 while it has not
    responseHandlers,  \* NSRPC.responseHandlers: the keys of the Map
    closureTargets,    \* NSRPC.closureTargets: target -> handler
    nextReq,           \* next fresh request id
    nextTarget,        \* next fresh closure target
    requests,          \* id -> body handed to sendRequest
    promise,           \* id -> state of the Promise made in sendRequest
    caller,            \* id -> outcome of the async initialize/perform/release call
    sent,              \* lines written to the transport, in order
    calls,             \* closure handler invocations, in order
    reachable,         \* owner -> still referenced by the application
    finalizers,        \* entries of the FinalizationRegistry
    removed,           \* closure targets whose removal callback has run
    received,          \* number of inbound lines delivered
    last               \* the operation that produced this state

vars == <<childProcess, lineHandlers, awaitingSpawn, stdinClosedAt, responseHandlers, closureTargets, nextReq, nextTarget,
          requests, promise, caller, sent, calls, reachable, finalizers,
          removed, received, last>>

(* ------------------------------ JSON ---------------------------------- *)
\* JSON.stringify of an object: keys whose value is undefined are omitted.
JSONstringify(obj) ==
    [k \in {key \in DOMAIN obj :
               IF key \in IntKeys THEN obj[key] # UndefinedInt
               ELSE IF key \in ObjectKeys THEN TRUE
               ELSE obj[key] # Undefined} |-> obj[k]]

\* JSON.parse of an inbound line: throws on text that is not JSON,
\* otherwise yields the value the text denotes.
JSONparse(line) ==
    IF line.text = "garbage"
    THEN [ok |-> FALSE]
    ELSE IF line.text = "object"
         THEN [ok |-> TRUE, type |-> "object", value |-> line.obj]
         ELSE IF line.text = "array"
              THEN [ok |-> TRUE, type |-> "array", value |-> [k \in {} |-> Undefined]]
              ELSE [ok |-> TRUE, type |-> line.text]

\* obj[key] of a parsed object: undefined when the key is absent.
Get(obj, key) ==
    IF key \in DOMAIN obj THEN obj[key]
    ELSE IF key \in IntKeys THEN UndefinedInt ELSE Undefined

(* --------------------------- inbound lines ---------------------------- *)
\* Responses the engine can write: it only knows ids it has been sent, plus
\* an id the host never issued.  The last two shapes violate the declared
\* NSRPCResponse types but are still lines the engine can put on the pipe.
EngineRead == IF stdinClosedAt < 0 THEN Len(sent) ELSE stdinClosedAt
WrittenIds == {m.id : m \in {sent[i] : i \in 1..EngineRead}} \cap 1..(nextReq - 1)
ResponseShapes(i) ==
    { [nsrpc |-> 1, id |-> i, status |-> 200, result |-> "ok"],
      [nsrpc |-> 1, id |-> i, status |-> 200],
      [nsrpc |-> 1, id |-> i, status |-> 500, error |-> "busy"],
      [nsrpc |-> 1, id |-> i, status |-> 500],
      [nsrpc |-> 1, id |-> i, status |-> 200, error |-> "busy"] }
ResponseObjects ==
    UNION {ResponseShapes(i) : i \in WrittenIds}
    \cup { [nsrpc |-> 1, id |-> OrphanId, status |-> 200, result |-> "ok"],
           [nsrpc |-> 1, id |-> OrphanId, status |-> 500, error |-> "busy"] }

\* Requests the engine can write.  Closure invocations come with and
\* without an id, with and without params; they address the targets the
\* host has handed out (registered or already removed) or a target the
\* host never made.
\* The engine numbers its requests in the order it writes them.
EngineRequestId == EngineId + received
KnownTargets == (1..(nextTarget - 1)) \cup {UnknownTarget}
ClosureRequests ==
    UNION {{ [nsrpc |-> 1, id |-> EngineRequestId, procedure |-> "perform", target |-> t],
             [nsrpc |-> 1, id |-> EngineRequestId, procedure |-> "perform", target |-> t,
              params |-> "p1"],
             [nsrpc |-> 1, procedure |-> "perform", target |-> t, params |-> "p1"] }
           : t \in KnownTargets}
OtherRequests ==
    { [nsrpc |-> 1, id |-> EngineRequestId, procedure |-> "init", target |-> 1, type |-> "T"],
      [nsrpc |-> 1, id |-> EngineRequestId, procedure |-> "release", target |-> 1],
      [nsrpc |-> 1, id |-> EngineRequestId, procedure |-> "manual-release", target |-> 1],
      [nsrpc |-> 1, id |-> EngineRequestId, procedure |-> "ping"],
      [nsrpc |-> 1, id |-> EngineRequestId, procedure |-> "perform", target |-> 1,
       action |-> "act"] }
RequestObjects == ClosureRequests \cup OtherRequests

\* The lines of an engine that only answers, and answers as the response
\* types declare: status 200 with a result, or an error status with an
\* error payload.
DeclaredResponseLines ==
    {[text |-> "object", obj |-> o] :
        o \in UNION {{ [nsrpc |-> 1, id |-> i, status |-> 200, result |-> "ok"],
                       [nsrpc |-> 1, id |-> i, status |-> 500, error |-> "busy"] }
                     : i \in WrittenIds}}

InboundLines ==
    {[text |-> k] : k \in {"garbage", "null", "array"}}
    \cup {[text |-> "object", obj |-> o] : o \in ResponseObjects \cup RequestObjects}

(* ------------------------------ run length ---------------------------- *)
\* How many operations the run has seen so far: the engine launch, exit
\* and close, the requests issued, the closures registered, the owners
\* dropped, the closure registrations finalized and the lines received.
Steps ==
    (CASE childProcess = "undefined" -> 0
       [] childProcess = "running" -> 1
       [] childProcess = "exited" -> 2
       [] childProcess = "closed" -> 3)
    + (nextReq - 1) + (nextTarget - 1)
    + Cardinality({o \in Owners : ~reachable[o]})
    + Cardinality((1..(nextTarget - 1)) \ DOMAIN closureTargets)
    + received
MoreSteps == Steps < MaxSteps
MoreLiveSteps == Steps < MaxLiveSteps

(* ------------------------ observation of a step ----------------------- *)
\* The tables and logs as they are when an operation starts; every action
\* stores them in last.pre so that its effect can be read off one state.
Snapshot ==
    [responseHandlers |-> responseHandlers, closureTargets |-> closureTargets,
     promise |-> promise, caller |-> caller, sent |-> sent, calls |-> calls,
     childProcess |-> childProcess, lineHandlers |-> lineHandlers]

(* ----------------------------- transport ------------------------------ *)
\* IpcRecordKit.write: throws when there is no stdin stream to write to.
\* The field childProcess is never cleared, so after the engine has exited
\* the stream object is still there: the line is handed to it and lost.
WriteThrows == childProcess = "undefined"

\* NSRPC.sendMessage: stringify and hand to send; the result is the new
\* transport content, or the exception thrown by send.
SendMessage(message) ==
    IF WriteThrows
    THEN [threw |-> TRUE, sent |-> sent]
    ELSE [threw |-> FALSE, sent |-> Append(sent, JSONstringify(message))]

\* Faulty variant of SendResponse: a response is written even when the
\* request carried no id.
SendResponseWithoutId(id, response) ==
    SendMessage([nsrpc |-> 1, id |-> id] @@ response)

\* NSRPC.sendResponse: nothing is sent for a request without id.
SendResponse(id, response) ==
    IF id = UndefinedInt
    THEN [threw |-> FALSE, sent |-> sent]
    ELSE SendMessage([nsrpc |-> 1, id |-> id] @@ response)

\* The requests issued by calls of the application (initialize, perform,
\* manualRelease); the automatic releases are issued by the finalization
\* registry, at most one per registration, and need no cap.
Issued == Cardinality({i \in DOMAIN requests : requests[i].procedure # "release"})

\* Faulty variant of SendRequest: the request line is written a second
\* time (a retry).
SendRequestWithRetry(request) ==
    LET id == nextReq
        out == SendMessage([nsrpc |-> 1, id |-> id] @@ request)
    IN  /\ request.procedure = "release" \/ Issued < MaxReq
        /\ nextReq' = nextReq + 1
        /\ responseHandlers' = responseHandlers \cup {id}
        /\ requests' = Append(requests, request)
        /\ promise' = Append(promise, [state |-> "pending", value |-> Undefined])
        /\ sent' = IF out.threw THEN out.sent
                                ELSE Append(out.sent, out.sent[Len(out.sent)])
        /\ caller' = Append(caller,
                        IF out.threw
                        THEN [state |-> "rejected", value |-> MissingStdin]
                        ELSE [state |-> "pending", value |-> Undefined])

\* Faulty variant of SendRequest: the exception of the write is caught and
\* the caller keeps waiting for a response.
SendRequestSwallowsWriteError(request) ==
    LET id == nextReq
        out == SendMessage([nsrpc |-> 1, id |-> id] @@ request)
    IN  /\ request.procedure = "release" \/ Issued < MaxReq
        /\ nextReq' = nextReq + 1
        /\ responseHandlers' = responseHandlers \cup {id}
        /\ requests' = Append(requests, request)
        /\ promise' = Append(promise, [state |-> "pending", value |-> Undefined])
        /\ sent' = out.sent
        /\ caller' = Append(caller, [state |-> "pending", value |-> Undefined])

\* NSRPC.sendRequest: fresh id, pending entry, then the write.  The async
\* function rejects when the write throws; the entry stays in the table.
SendRequest(request) ==
    LET id == nextReq
        out == SendMessage([nsrpc |-> 1, id |-> id] @@ request)
    IN  /\ request.procedure = "release" \/ Issued < MaxReq
        /\ nextReq' = nextReq + 1
        /\ responseHandlers' = responseHandlers \cup {id}
        /\ requests' = Append(requests, request)
        /\ promise' = Append(promise, [state |-> "pending", value |-> Undefined])
        /\ sent' = out.sent
        /\ caller' = Append(caller,
                        IF out.threw
                        THEN [state |-> "rejected", value |-> MissingStdin]
                        ELSE [state |-> "pending", value |-> Undefined])

(* -------------------------- request handling -------------------------- *)
\* Both handlers yield [defined, body, calls]: the response body (defined
\* is FALSE when the code returns undefined) and the handler invocations made.
NotImplemented(what) ==
    [defined |-> TRUE, body |-> [status |-> 501, error |-> what], calls |-> <<>>]

\* Faulty variants of HandleClosureRequest.  Each differs from it in one branch:
\*   "params":  the handler is called without the request's params
\*   "throw":   a throwing handler is answered like one that returned
\*   "unknown": an unknown target is answered 'not implemented'
HandleClosureRequestVariant(request, variant) ==
    LET target == Get(request, "target")
        params == IF "params" \in DOMAIN request /\ variant # "params"
                  THEN request.params ELSE EmptyObject
    IN  IF target \notin DOMAIN closureTargets
        THEN [defined |-> TRUE,
              body |-> IF variant = "unknown"
                       THEN [status |-> 501, error |-> "PerformNotImplemented"]
                       ELSE [status |-> 404, error |-> "TargetNotFound"],
              calls |-> <<>>]
        ELSE LET handler == closureTargets[target]
                 call == [target |-> target, handler |-> handler, params |-> params]
             IN  IF handler = "throw" /\ variant # "throw"
                 THEN [defined |-> TRUE,
                       body |-> [status |-> 202, error |-> HandlerError],
                       calls |-> <<call>>]
                 ELSE [defined |-> TRUE,
                       body |-> [status |-> 200,
                                 result |-> IF handler = "value" THEN HandlerResult
                                                                 ELSE Undefined],
                       calls |-> <<call>>]
HandleClosureRequestDropsParams(request) == HandleClosureRequestVariant(request, "params")
HandleClosureRequestIgnoresThrow(request) == HandleClosureRequestVariant(request, "throw")
HandleClosureRequestUnknownAs501(request) == HandleClosureRequestVariant(request, "unknown")

\* NSRPC.handleClosureRequest
HandleClosureRequest(request) ==
    LET target == Get(request, "target")
        params == IF "params" \in DOMAIN request THEN request.params ELSE EmptyObject
    IN  IF target \notin DOMAIN closureTargets
        THEN [defined |-> TRUE,
              body |-> [status |-> 404, error |-> "TargetNotFound"],
              calls |-> <<>>]
        ELSE LET handler == closureTargets[target]
                 call == [target |-> target, handler |-> handler, params |-> params]
             IN  IF handler = "throw"
                 THEN [defined |-> TRUE,
                       body |-> [status |-> 202, error |-> HandlerError],
                       calls |-> <<call>>]
                 ELSE [defined |-> TRUE,
                       body |-> [status |-> 200,
                                 result |-> IF handler = "value" THEN HandlerResult
                                                                 ELSE Undefined],
                       calls |-> <<call>>]

\* Faulty variant of HandleRequest: a perform request is dispatched to the closure
\* registry without looking at its action field.
HandleRequestNoActionCheck(request) ==
    LET procedure == Get(request, "procedure")
    IN  CASE procedure = "init" -> NotImplemented("InitNotImplemented")
          [] procedure = "perform" -> HandleClosureRequest(request)
          [] procedure = "release" -> NotImplemented("ReleaseNotImplemented")
          [] OTHER -> [defined |-> FALSE, body |-> [status |-> UndefinedInt], calls |-> <<>>]

\* NSRPC.handleRequest: the switch over request.procedure; a procedure
\* outside the three cases falls out of the switch and yields undefined.
HandleRequest(request) ==
    LET procedure == Get(request, "procedure")
    IN  CASE procedure = "init" -> NotImplemented("InitNotImplemented")
          [] procedure = "perform" ->
                IF "action" \in DOMAIN request
                THEN NotImplemented("PerformNotImplemented")
                ELSE HandleClosureRequest(request)
          [] procedure = "release" -> NotImplemented("ReleaseNotImplemented")
          [] OTHER -> [defined |-> FALSE, body |-> [status |-> UndefinedInt], calls |-> <<>>]

(* ------------------------------ receive ------------------------------- *)
\* Faulty variant of CallerOutcome: the engine's error payload is replaced by a
\* locally made error.
CallerOutcomeLocalError(request, settled) ==
    IF settled.state = "rejected"
    THEN [state |-> "rejected", value |-> "RPC request failed"]
    ELSE [state |-> "fulfilled",
          value |-> IF request.procedure = "perform" THEN settled.value ELSE Undefined]

\* What the async initialize/perform/release/manualRelease call returns
\* once the promise of sendRequest settles: perform returns the result,
\* the others return nothing; a rejection is passed on unchanged.
CallerOutcome(request, settled) ==
    IF settled.state = "rejected"
    THEN settled
    ELSE [state |-> "fulfilled",
          value |-> IF request.procedure = "perform" THEN settled.value ELSE Undefined]

\* Faulty variant of HandleResponse: responses are matched to requests by arrival
\* order (the oldest pending request) instead of by id.
HandleResponseInOrder(message) ==
    LET settled == IF "error" \in DOMAIN message
                   THEN [state |-> "rejected", value |-> message.error]
                   ELSE [state |-> "resolved", value |-> Get(message, "result")]
    IN  /\ IF responseHandlers = {}
           THEN UNCHANGED <<responseHandlers, promise, caller>>
           ELSE LET id == CHOOSE i \in responseHandlers :
                              \A j \in responseHandlers : i <= j
                IN  /\ responseHandlers' = responseHandlers \ {id}
                    /\ promise' = [promise EXCEPT ![id] = settled]
                    /\ caller' = [caller EXCEPT
                                    ![id] = CallerOutcome(requests[id], settled)]
        /\ UNCHANGED <<sent, calls>>

\* Faulty variant of HandleResponse: a response also clears the other
\* pending entries of requests that name the same target.
HandleResponseClearsTarget(message) ==
    LET id == Get(message, "id")
        settled == IF "error" \in DOMAIN message
                   THEN [state |-> "rejected", value |-> message.error]
                   ELSE [state |-> "resolved", value |-> Get(message, "result")]
        sameTarget == IF id \in responseHandlers
                      THEN {j \in responseHandlers :
                              Get(requests[j], "target") = Get(requests[id], "target")}
                      ELSE {}
    IN  /\ responseHandlers' = (responseHandlers \ {id}) \ sameTarget
        /\ IF id \in responseHandlers
           THEN /\ promise' = [promise EXCEPT ![id] = settled]
                /\ caller' = [caller EXCEPT ![id] = CallerOutcome(requests[id], settled)]
           ELSE UNCHANGED <<promise, caller>>
        /\ UNCHANGED <<sent, calls>>

\* Faulty variant of HandleResponse: the entry of the answered request is
\* left in the table.
HandleResponseKeepsEntry(message) ==
    LET id == Get(message, "id")
        settled == IF "error" \in DOMAIN message
                   THEN [state |-> "rejected", value |-> message.error]
                   ELSE [state |-> "resolved", value |-> Get(message, "result")]
    IN  /\ UNCHANGED responseHandlers
        /\ IF id \in responseHandlers
           THEN /\ promise' = [promise EXCEPT ![id] = settled]
                /\ caller' = [caller EXCEPT ![id] = CallerOutcome(requests[id], settled)]
           ELSE UNCHANGED <<promise, caller>>
        /\ UNCHANGED <<sent, calls>>

\* Faulty variant of HandleResponse: an orphan response is answered with an
\* error line.
HandleResponseAnswersOrphan(message) ==
    LET id == Get(message, "id")
        settled == IF "error" \in DOMAIN message
                   THEN [state |-> "rejected", value |-> message.error]
                   ELSE [state |-> "resolved", value |-> Get(message, "result")]
    IN  /\ responseHandlers' = responseHandlers \ {id}
        /\ IF id \in responseHandlers
           THEN /\ promise' = [promise EXCEPT ![id] = settled]
                /\ caller' = [caller EXCEPT ![id] = CallerOutcome(requests[id], settled)]
                /\ UNCHANGED sent
           ELSE /\ UNCHANGED <<promise, caller>>
                /\ sent' = SendResponse(id, [status |-> 404, error |-> "UnknownId"]).sent
        /\ UNCHANGED calls

\* The response branch of NSRPC.receive.
HandleResponse(message) ==
    LET id == Get(message, "id")
        settled == IF "error" \in DOMAIN message
                   THEN [state |-> "rejected", value |-> message.error]
                   ELSE [state |-> "resolved", value |-> Get(message, "result")]
    IN  /\ responseHandlers' = responseHandlers \ {id}
        /\ IF id \in responseHandlers
           THEN /\ promise' = [promise EXCEPT ![id] = settled]
                /\ caller' = [caller EXCEPT ![id] = CallerOutcome(requests[id], settled)]
           ELSE UNCHANGED <<promise, caller>>
        /\ UNCHANGED <<sent, calls>>

\* The request branch of NSRPC.receive: [threw, sent, calls].
InboundRequestOutcome(message) ==
    LET handled == HandleRequest(message)
        out == IF handled.defined
               THEN SendResponse(Get(message, "id"), handled.body)
               ELSE [threw |-> FALSE, sent |-> sent]
    IN  [threw |-> out.threw, sent |-> out.sent, calls |-> calls \o handled.calls]

\* Faulty variant of HandleInboundRequest: the response is not written by
\* the time the line has been handled, and ends up ahead of the lines
\* written before.
HandleInboundRequestOutOfOrder(message) ==
    LET out == InboundRequestOutcome(message)
    IN  /\ calls' = out.calls
        /\ sent' = IF Len(out.sent) > Len(sent)
                   THEN <<out.sent[Len(out.sent)]>> \o sent
                   ELSE sent
        /\ UNCHANGED <<responseHandlers, promise, caller>>

HandleInboundRequest(message) ==
    LET out == InboundRequestOutcome(message)
    IN  /\ calls' = out.calls
        /\ sent' = out.sent
        /\ UNCHANGED <<responseHandlers, promise, caller>>

\* Faulty variant of ReceiveRaises: JSON.parse is not guarded by try/catch.
ReceiveRaisesOnParseError(line) ==
    LET parsed == JSONparse(line)
    IN  \/ ~parsed.ok
        \/ parsed.type \in {"null", "number", "string", "boolean"}

\* Whether receive(line) ends with an exception: '"status" in message'
\* throws a TypeError when message is not an object, and an exception of
\* the transport write escapes sendResponse.
ReceiveRaises(line) ==
    LET parsed == JSONparse(line)
    IN  /\ parsed.ok
        /\ \/ parsed.type \in {"null", "number", "string", "boolean"}
           \/ /\ parsed.type = "object"
              /\ "status" \notin DOMAIN parsed.value
              /\ InboundRequestOutcome(parsed.value).threw

\* NSRPC.receive, called by the stdout line handler of IpcRecordKit.
ReceiveUpTo(line, maxLines) ==
    LET parsed == JSONparse(line)
        isObject == parsed.ok /\ parsed.type \in {"object", "array"}
    IN  /\ lineHandlers > 0
        /\ childProcess \in {"running", "exited"}
        /\ received < maxLines
        /\ received' = received + 1
        /\ last' = [op |-> "receive", pre |-> Snapshot, line |-> line,
                    raised |-> ReceiveRaises(line)]
        /\ IF ~isObject
           THEN UNCHANGED <<responseHandlers, promise, caller, sent, calls>>
           ELSE IF "status" \in DOMAIN parsed.value
                THEN HandleResponse(parsed.value)
                ELSE HandleInboundRequest(parsed.value)
        /\ UNCHANGED <<childProcess, lineHandlers, awaitingSpawn, stdinClosedAt, closureTargets, nextReq, nextTarget,
                       requests, reachable, finalizers, removed>>

Receive(line) == ReceiveUpTo(line, MaxInbound)

(* -------------------------- host operations --------------------------- *)
\* The objects a registration can be bound to: a Recorder, or the RecordKit
\* singleton, which the module keeps referenced for the whole run.
Lifecycles == Owners \cup {RecordKitObject}
Reachable(o) == IF o = RecordKitObject THEN TRUE ELSE reachable[o]

\* The init request of owner o, if NSRPC.initialize was called for it.
InitIds(o) ==
    {i \in 1..Len(requests) :
        requests[i].procedure = "init" /\ requests[i].target = RemoteTarget(o)}

\* Recorder.newInstance returns the Recorder only once initialize has
\* completed; prepare/start/stop/cancel need that handle.
HasHandle(o) ==
    reachable[o] /\ \E i \in InitIds(o) : caller[i].state = "fulfilled"

\* IpcRecordKit.initialize, from the call to the 'spawn' event of the
\* child: spawn the engine, keep the child process and attach the stdout
\* line handler.
IpcInitialize ==
    /\ childProcess = "undefined"
    /\ childProcess' = "running"
    /\ lineHandlers' = lineHandlers + 1
    /\ last' = [op |-> "ipcInitialize", pre |-> Snapshot]
    /\ UNCHANGED <<awaitingSpawn, stdinClosedAt, responseHandlers, closureTargets, nextReq, nextTarget, requests,
                   promise, caller, sent, calls, reachable, finalizers, removed,
                   received>>

\* Faulty variant of IpcInitializeFails: the child process is recorded when
\* it is created, before its 'spawn' or 'error' event.
IpcInitializeFailsKeepsChild ==
    /\ childProcess = "undefined"
    /\ childProcess' = "closed"
    /\ last' = [op |-> "ipcInitializeFailed", pre |-> Snapshot, raised |-> LaunchError]
    /\ UNCHANGED <<lineHandlers, awaitingSpawn, stdinClosedAt, responseHandlers,
                   closureTargets, nextReq, nextTarget, requests, promise, caller,
                   sent, calls, reachable, finalizers, removed, received>>

\* Faulty variant of IpcInitializeRefused: without the check, the engine is
\* spawned again and a second line handler is attached.
IpcInitializeAgain ==
    /\ childProcess # "undefined"
    /\ lineHandlers <= 1
    /\ childProcess' = "running"
    /\ lineHandlers' = lineHandlers + 1
    /\ last' = [op |-> "ipcInitialize", pre |-> Snapshot]
    /\ UNCHANGED <<awaitingSpawn, stdinClosedAt, responseHandlers, closureTargets, nextReq, nextTarget,
                   requests, promise, caller, sent, calls, reachable, finalizers,
                   removed, received>>

\* IpcRecordKit.initialize when the child emits 'error' instead of 'spawn'
\* (binary missing, not executable): the awaited promise rejects, so the
\* assignment to childProcess and the rest of the function do not happen.
IpcInitializeFails ==
    /\ childProcess = "undefined"
    /\ last' = [op |-> "ipcInitializeFailed", pre |-> Snapshot, raised |-> LaunchError]
    /\ UNCHANGED <<childProcess, lineHandlers, awaitingSpawn, stdinClosedAt, responseHandlers,
                   closureTargets, nextReq, nextTarget, requests, promise, caller,
                   sent, calls, reachable, finalizers, removed, received>>

\* IpcRecordKit.initialize on an instance that has a child process: throws
\* before anything else is done.
IpcInitializeRefused ==
    /\ childProcess # "undefined"
    /\ last' = [op |-> "ipcInitializeRefused", pre |-> Snapshot,
                raised |-> AlreadyInitialized]
    /\ UNCHANGED <<childProcess, lineHandlers, awaitingSpawn, stdinClosedAt, responseHandlers,
                   closureTargets, nextReq, nextTarget, requests, promise, caller,
                   sent, calls, reachable, finalizers, removed, received>>

\* IpcRecordKit.initialize, from the call to its await: the check of
\* this.childProcess passes, spawn creates a child, and the function
\* suspends until the child emits 'spawn' or 'error'. this.childProcess is
\* not assigned yet.
IpcInitializeCall ==
    /\ childProcess = "undefined"
    /\ awaitingSpawn + lineHandlers < MaxLaunches
    /\ awaitingSpawn' = awaitingSpawn + 1
    /\ last' = [op |-> "ipcInitializeCall", pre |-> Snapshot]
    /\ UNCHANGED <<childProcess, lineHandlers, stdinClosedAt, responseHandlers,
                   closureTargets, nextReq, nextTarget, requests, promise, caller,
                   sent, calls, reachable, finalizers, removed, received>>

\* IpcRecordKit.initialize, from the 'spawn' event of its child to the end:
\* the awaited promise resolves, this.childProcess is assigned that child
\* and a line handler on its stdout is attached.
IpcInitializeSpawned ==
    /\ awaitingSpawn > 0
    /\ awaitingSpawn' = awaitingSpawn - 1
    /\ childProcess' = "running"
    /\ lineHandlers' = lineHandlers + 1
    /\ last' = [op |-> "ipcInitialize", pre |-> Snapshot]
    /\ UNCHANGED <<stdinClosedAt, responseHandlers, closureTargets, nextReq,
                   nextTarget, requests, promise, caller, sent, calls, reachable,
                   finalizers, removed, received>>

\* IpcRecordKit.initialize when its child emits 'error' instead of 'spawn':
\* the awaited promise rejects and nothing is assigned or attached.
IpcInitializeSpawnError ==
    /\ awaitingSpawn > 0
    /\ awaitingSpawn' = awaitingSpawn - 1
    /\ last' = [op |-> "ipcInitializeFailed", pre |-> Snapshot, raised |-> LaunchError]
    /\ UNCHANGED <<childProcess, lineHandlers, stdinClosedAt, responseHandlers,
                   closureTargets, nextReq, nextTarget, requests, promise, caller,
                   sent, calls, reachable, finalizers, removed, received>>

\* Faulty variant of ProcessEvent: the 'exit' listener rejects every pending
\* request and empties the correlation table.
ProcessEventRejectsPending(event) ==
    /\ CASE event = "error" -> childProcess = "running" /\ UNCHANGED <<childProcess, stdinClosedAt>>
         [] event = "exit" -> /\ childProcess = "running"
                              /\ childProcess' = "exited"
                              /\ stdinClosedAt' = Len(sent)
         [] event = "close" -> /\ childProcess = "exited"
                               /\ childProcess' = "closed"
                               /\ UNCHANGED stdinClosedAt
    /\ last' = [op |-> "processEvent", pre |-> Snapshot, event |-> event]
    /\ IF event = "exit"
       THEN /\ responseHandlers' = {}
            /\ promise' = [i \in DOMAIN promise |->
                             IF i \in responseHandlers /\ promise[i].state = "pending"
                             THEN [state |-> "rejected", value |-> "exited"]
                             ELSE promise[i]]
            /\ caller' = [i \in DOMAIN caller |->
                            IF i \in responseHandlers /\ caller[i].state = "pending"
                            THEN [state |-> "rejected", value |-> "exited"]
                            ELSE caller[i]]
       ELSE UNCHANGED <<responseHandlers, promise, caller>>
    /\ UNCHANGED <<lineHandlers, awaitingSpawn, closureTargets, nextReq, nextTarget,
                   requests, sent, calls, reachable, finalizers, removed, received>>

\* The 'error', 'exit' and 'close' listeners of the child process: each
\* only logs.  'error' on a launched child does not end it (the reject
\* it calls is on a settled promise); 'exit' ends the process while its
\* stdout may still hold lines; 'close' follows once the pipes are closed.
ProcessEvent(event) ==
    /\ CASE event = "error" -> childProcess = "running" /\ UNCHANGED <<childProcess, stdinClosedAt>>
         [] event = "exit" -> /\ childProcess = "running"
                              /\ childProcess' = "exited"
                              /\ stdinClosedAt' = Len(sent)
         [] event = "close" -> /\ childProcess = "exited"
                               /\ childProcess' = "closed"
                               /\ UNCHANGED stdinClosedAt
    /\ last' = [op |-> "processEvent", pre |-> Snapshot, event |-> event]
    /\ UNCHANGED <<lineHandlers, awaitingSpawn, responseHandlers, closureTargets, nextReq, nextTarget,
                   requests, promise, caller, sent, calls, reachable, finalizers,
                   removed, received>>

\* NSRPC.initialize: register the automatic release with the finalization
\* registry, then send the init request.
Initialize(o) ==
    /\ reachable[o]
    /\ InitIds(o) = {}
    /\ finalizers' = finalizers \cup
                       {[owner |-> o, kind |-> "release", target |-> RemoteTarget(o)]}
    /\ SendRequest([target |-> RemoteTarget(o), type |-> "Recorder",
                    params |-> "schema", procedure |-> "init"])
    /\ last' = [op |-> "initialize", pre |-> Snapshot, id |-> nextReq, owner |-> o]
    /\ UNCHANGED <<childProcess, lineHandlers, awaitingSpawn, stdinClosedAt, closureTargets, nextTarget, calls, reachable,
                   removed, received>>

\* What a callback field of a schema item holds: the function the caller
\* put there, or (a positive number) the target id of a closure.
CallerFunction == 0

\* The callbacks a recording item of the schema can carry.
ItemCallbacks == {"segmentCallback", "streamCallback"}

\* Recorder.newInstance up to its await, as one synchronous run: each
\* callback of the schema is replaced by the target of a closure registered
\* for it (callbacks lists them in item order), then the abort closure is
\* registered, then NSRPC.initialize registers the release and writes the
\* init request whose params carry the schema and onAbortInstance.  Every
\* closure is bound to the new Recorder.  abortFirst is TRUE in the code;
\* with FALSE the abort closure is registered only after the request is
\* sent.  The registry as it is when the request is sent is kept in last.
\* The callbacks are assigned in place: schema is the caller's own object,
\* which held the caller's functions (given) when the call began; what it
\* holds when the call leaves it is kept in last as callerSchema.
NewInstanceVariant(o, callbacks, handler, abortFirst) ==
    LET n == Len(callbacks)
        itemTarget == [k \in 1..n |-> nextTarget + k - 1]
        onAbortInstance == nextTarget + n
        given == [c \in {callbacks[k] : k \in 1..n} |-> CallerFunction]
        schema == [c \in DOMAIN given |->
                      itemTarget[CHOOSE k \in 1..n : callbacks[k] = c]]
        itemClosures == [t \in DOMAIN closureTargets \cup {itemTarget[k] : k \in 1..n} |->
                            IF t \in DOMAIN closureTargets THEN closureTargets[t]
                                                          ELSE handler]
        allClosures == [t \in DOMAIN itemClosures \cup {onAbortInstance} |->
                           IF t = onAbortInstance THEN "void" ELSE itemClosures[t]]
    IN  /\ reachable[o]
        /\ InitIds(o) = {}
        /\ nextTarget + n <= MaxClosures
        /\ nextTarget' = nextTarget + n + 1
        /\ closureTargets' = allClosures
        /\ finalizers' = finalizers
               \cup {[owner |-> o, kind |-> "closure", target |-> t] :
                        t \in {itemTarget[k] : k \in 1..n} \cup {onAbortInstance}}
               \cup {[owner |-> o, kind |-> "release", target |-> RemoteTarget(o)]}
        /\ SendRequest([target |-> RemoteTarget(o), type |-> "Recorder",
                        params |-> [schema |-> schema,
                                    onAbortInstance |-> onAbortInstance],
                        procedure |-> "init"])
        /\ last' = [op |-> "newInstance", pre |-> Snapshot, id |-> nextReq, owner |-> o,
                    atWrite |-> IF abortFirst THEN DOMAIN allClosures
                                              ELSE DOMAIN itemClosures,
                    given |-> given, callerSchema |-> schema]
        /\ UNCHANGED <<childProcess, lineHandlers, awaitingSpawn, stdinClosedAt, calls, reachable,
                       removed, received>>

\* Faulty variant of NewInstance: the abort closure is registered after
\* the init request has been sent.
NewInstanceAbortAfterInit(o, callbacks, handler) ==
    NewInstanceVariant(o, callbacks, handler, FALSE)

\* Recorder.newInstance
NewInstance(o, callbacks, handler) ==
    NewInstanceVariant(o, callbacks, handler, TRUE)

\* The bodies the repository passes to NSRPC.perform: a static call
\* (type + action) and a method call on a recorder (target + action).
PerformBodies ==
    {[type |-> "Recorder", action |-> "getCameras", params |-> "p0"]}
    \cup {[target |-> RemoteTarget(o), action |-> "start"] : o \in {x \in Owners : HasHandle(x)}}

\* NSRPC.perform
Perform(body) ==
    /\ SendRequest([procedure |-> "perform"] @@ body)
    /\ last' = [op |-> "perform", pre |-> Snapshot, id |-> nextReq]
    /\ UNCHANGED <<childProcess, lineHandlers, awaitingSpawn, stdinClosedAt, closureTargets, nextTarget, calls, reachable,
                   finalizers, removed, received>>

\* Faulty variant of ManualRelease: cancel also removes the closures
\* registered for the recorder.
ManualReleaseRemovesClosures(o) ==
    LET owned == {f.target : f \in {g \in finalizers : g.owner = o /\ g.kind = "closure"}}
    IN  /\ HasHandle(o)
        /\ SendRequest([procedure |-> "manual-release", target |-> RemoteTarget(o)])
        /\ closureTargets' = [t \in DOMAIN closureTargets \ owned |-> closureTargets[t]]
        /\ last' = [op |-> "manualRelease", pre |-> Snapshot, id |-> nextReq]
        /\ UNCHANGED <<childProcess, lineHandlers, awaitingSpawn, stdinClosedAt, nextTarget, calls, reachable,
                       finalizers, removed, received>>

\* NSRPC.manualRelease, called by Recorder.cancel
ManualRelease(o) ==
    /\ HasHandle(o)
    /\ SendRequest([procedure |-> "manual-release", target |-> RemoteTarget(o)])
    /\ last' = [op |-> "manualRelease", pre |-> Snapshot, id |-> nextReq]
    /\ UNCHANGED <<childProcess, lineHandlers, awaitingSpawn, stdinClosedAt, closureTargets, nextTarget, calls, reachable,
                   finalizers, removed, received>>

\* Faulty variant of RegisterClosure: the target is the lowest identifier
\* that is free in the registry instead of a fresh one.
RegisterClosureReusesTarget(o, handler) ==
    LET target == CHOOSE t \in 1..(MaxClosures + 1) :
                      /\ t \notin DOMAIN closureTargets
                      /\ \A u \in 1..(t - 1) : u \in DOMAIN closureTargets
    IN  /\ Reachable(o)
        /\ nextTarget <= MaxClosures
        /\ nextTarget' = nextTarget + 1
        /\ closureTargets' = [t \in DOMAIN closureTargets \cup {target} |->
                                IF t = target THEN handler ELSE closureTargets[t]]
        /\ finalizers' = finalizers \cup
                           {[owner |-> o, kind |-> "closure", target |-> target]}
        /\ last' = [op |-> "registerClosure", pre |-> Snapshot, target |-> target]
        /\ UNCHANGED <<childProcess, lineHandlers, awaitingSpawn, stdinClosedAt, responseHandlers, nextReq, requests, promise,
                       caller, sent, calls, reachable, removed, received>>

\* NSRPC.registerClosure: fresh target, store the handler, bind its removal
\* to the owner's finalization.
RegisterClosure(o, handler) ==
    LET target == nextTarget
    IN  /\ Reachable(o)
        /\ nextTarget <= MaxClosures
        /\ nextTarget' = nextTarget + 1
        /\ closureTargets' = [t \in DOMAIN closureTargets \cup {target} |->
                                IF t = target THEN handler ELSE closureTargets[t]]
        /\ finalizers' = finalizers \cup
                           {[owner |-> o, kind |-> "closure", target |-> target]}
        /\ last' = [op |-> "registerClosure", pre |-> Snapshot, target |-> target]
        /\ UNCHANGED <<childProcess, lineHandlers, awaitingSpawn, stdinClosedAt, responseHandlers, nextReq, requests, promise,
                       caller, sent, calls, reachable, removed, received>>

\* RecordKit.initialize, after the engine is launched: register the log
\* handler closure, bound to the RecordKit singleton.  A second call of
\* RecordKit.initialize fails in IpcRecordKit.initialize ('Already
\* initialized') before it gets here.
RegisterLogHandler ==
    /\ childProcess = "running"
    /\ \A f \in finalizers : f.owner # RecordKitObject
    /\ RegisterClosure(RecordKitObject, "void")

(* ---------------------------- finalization ---------------------------- *)
\* The application drops its last reference to an owner.  While
\* Recorder.newInstance awaits initialize it still holds the object.
Drop(o) ==
    /\ reachable[o]
    /\ \A i \in InitIds(o) : caller[i].state # "pending"
    /\ reachable' = [reachable EXCEPT ![o] = FALSE]
    /\ last' = [op |-> "drop", pre |-> Snapshot, owner |-> o]
    /\ UNCHANGED <<childProcess, lineHandlers, awaitingSpawn, stdinClosedAt, responseHandlers, closureTargets, nextReq, nextTarget,
                   requests, promise, caller, sent, calls, finalizers, removed,
                   received>>

\* NSRPC.release: the automatic release request.
Release(target) ==
    SendRequest([procedure |-> "release", target |-> target])

\* Faulty variant of Finalize: the callback of a closure registration
\* leaves the closure in the registry.
FinalizeKeepsClosure(f) ==
    /\ f \in finalizers
    /\ ~Reachable(f.owner)
    /\ finalizers' = finalizers \ {f}
    /\ last' = [op |-> "finalize", pre |-> Snapshot, kind |-> f.kind, target |-> f.target]
    /\ IF f.kind = "closure"
       THEN /\ removed' = removed \cup {f.target}
            /\ UNCHANGED <<closureTargets, responseHandlers, nextReq, requests,
                           promise, caller, sent>>
       ELSE /\ Release(f.target)
            /\ UNCHANGED <<closureTargets, removed>>
    /\ UNCHANGED <<childProcess, lineHandlers, awaitingSpawn, stdinClosedAt, nextTarget, calls, reachable, received>>

\* Faulty variant of Finalize: the registration stays in the finalization
\* registry after its callback has run, so the callback can run again.
FinalizeKeepsRegistration(f) ==
    /\ f \in finalizers
    /\ ~Reachable(f.owner)
    /\ UNCHANGED finalizers
    /\ last' = [op |-> "finalize", pre |-> Snapshot, kind |-> f.kind, target |-> f.target]
    /\ IF f.kind = "closure"
       THEN /\ closureTargets' = [t \in DOMAIN closureTargets \ {f.target} |->
                                    closureTargets[t]]
            /\ removed' = removed \cup {f.target}
            /\ UNCHANGED <<responseHandlers, nextReq, requests, promise, caller, sent>>
       ELSE /\ Release(f.target)
            /\ UNCHANGED <<closureTargets, removed>>
    /\ UNCHANGED <<childProcess, lineHandlers, awaitingSpawn, stdinClosedAt, nextTarget, calls, reachable, received>>

\* Faulty variant of Finalize: the callback of an initialized target does
\* not send the release.
FinalizeSkipsRelease(f) ==
    /\ f \in finalizers
    /\ ~Reachable(f.owner)
    /\ finalizers' = finalizers \ {f}
    /\ last' = [op |-> "finalize", pre |-> Snapshot, kind |-> f.kind, target |-> f.target]
    /\ IF f.kind = "closure"
       THEN /\ closureTargets' = [t \in DOMAIN closureTargets \ {f.target} |->
                                    closureTargets[t]]
            /\ removed' = removed \cup {f.target}
            /\ UNCHANGED <<responseHandlers, nextReq, requests, promise, caller, sent>>
       ELSE UNCHANGED <<closureTargets, removed, responseHandlers, nextReq, requests,
                        promise, caller, sent>>
    /\ UNCHANGED <<childProcess, lineHandlers, awaitingSpawn, stdinClosedAt, nextTarget, calls, reachable, received>>

\* The FinalizationRegistry callback runs the destructor registered for an
\* unreachable owner, once, at some later time.
Finalize(f) ==
    /\ f \in finalizers
    /\ ~Reachable(f.owner)
    /\ finalizers' = finalizers \ {f}
    /\ last' = [op |-> "finalize", pre |-> Snapshot, kind |-> f.kind, target |-> f.target]
    /\ IF f.kind = "closure"
       THEN /\ closureTargets' = [t \in DOMAIN closureTargets \ {f.target} |->
                                    closureTargets[t]]
            /\ removed' = removed \cup {f.target}
            /\ UNCHANGED <<responseHandlers, nextReq, requests, promise, caller, sent>>
       ELSE /\ Release(f.target)
            /\ UNCHANGED <<closureTargets, removed>>
    /\ UNCHANGED <<childProcess, lineHandlers, awaitingSpawn, stdinClosedAt, nextTarget, calls, reachable, received>>

(* --------------------------- specification ---------------------------- *)
Init ==
    /\ childProcess = "undefined"
    /\ lineHandlers = 0
    /\ awaitingSpawn = 0
    /\ stdinClosedAt = 0 - 1
    /\ responseHandlers = {}
    /\ closureTargets = [t \in {} |-> "void"]
    /\ nextReq = 1
    /\ nextTarget = 1
    /\ requests = <<>>
    /\ promise = <<>>
    /\ caller = <<>>
    /\ sent = <<>>
    /\ calls = <<>>
    /\ reachable = [o \in Owners |-> TRUE]
    /\ finalizers = {}
    /\ removed = {}
    /\ received = 0
    /\ last = [op |-> "new", pre |-> Snapshot]

Next ==
    \/ MoreSteps /\ IpcInitialize
    \/ MoreSteps /\ \E o \in Owners : Initialize(o)
    \/ MoreSteps /\ \E body \in PerformBodies : Perform(body)
    \/ MoreSteps /\ \E o \in Owners : ManualRelease(o)
    \/ MoreSteps /\ \E o \in Owners, handler \in HandlerKinds : RegisterClosure(o, handler)
    \/ MoreSteps /\ RegisterLogHandler
    \/ MoreSteps /\ \E o \in Owners : Drop(o)
    \/ MoreSteps /\ \E f \in finalizers : Finalize(f)
    \/ MoreSteps /\ \E line \in InboundLines : Receive(line)

Spec == Init /\ [][Next]_vars

\* Longer runs against an engine that answers as declared.  The callbacks
\* of the finalization registry are not part of the application's run
\* length: the runtime runs each of them at some time after its owner has
\* become unreachable, which is the fairness assumed here.
Finalization == \E f \in finalizers : Finalize(f)

LiveNext ==
    \/ MoreLiveSteps /\ IpcInitialize
    \/ MoreLiveSteps /\ \E o \in Owners : Initialize(o)
    \/ MoreLiveSteps /\ \E body \in PerformBodies : Perform(body)
    \/ MoreLiveSteps /\ \E o \in Owners : ManualRelease(o)
    \/ MoreLiveSteps /\ \E o \in Owners : RegisterClosure(o, "void")
    \/ MoreLiveSteps /\ RegisterLogHandler
    \/ MoreLiveSteps /\ \E o \in Owners : Drop(o)
    \/ Finalization
    \/ MoreLiveSteps /\ \E line \in DeclaredResponseLines : Receive(line)

LiveSpec == Init /\ [][LiveNext]_vars /\ WF_vars(Finalization)

\* Runs of the Recorder: recorders are made by Recorder.newInstance with
\* zero, one or two callbacks in the schema, cancelled and dropped, and the
\* engine answers as declared and invokes the closures it was handed.
SchemaCallbacks ==
    {<<>>, <<"segmentCallback">>, <<"streamCallback">>,
     <<"segmentCallback", "streamCallback">>}
RecorderLines ==
    DeclaredResponseLines \cup {[text |-> "object", obj |-> o] : o \in ClosureRequests}

MoreRecorderSteps == Steps < MaxRecorderSteps

RecorderNext ==
    \/ MoreRecorderSteps /\ IpcInitialize
    \/ MoreRecorderSteps /\ \E o \in Owners, callbacks \in SchemaCallbacks, handler \in {"void", "throw"} :
                                NewInstance(o, callbacks, handler)
    \/ MoreRecorderSteps /\ \E o \in Owners : ManualRelease(o)
    \/ MoreRecorderSteps /\ \E o \in Owners : Drop(o)
    \/ MoreRecorderSteps /\ \E f \in finalizers : Finalize(f)
    \/ MoreRecorderSteps /\ \E line \in RecorderLines : ReceiveUpTo(line, MaxRecorderInbound)

RecorderSpec == Init /\ [][RecorderNext]_vars

\* Runs in which the launch of the engine can fail or be repeated and the
\* launched engine can report errors, exit and close, against an engine
\* that answers as declared.
TransportNext ==
    \/ MoreSteps /\ IpcInitialize
    \/ MoreSteps /\ IpcInitializeFails
    \/ MoreSteps /\ IpcInitializeRefused
    \/ MoreSteps /\ \E event \in ProcessEvents : ProcessEvent(event)
    \/ MoreSteps /\ \E o \in Owners : Initialize(o)
    \/ MoreSteps /\ \E body \in PerformBodies : Perform(body)
    \/ MoreSteps /\ \E o \in Owners : ManualRelease(o)
    \/ MoreSteps /\ \E o \in Owners : Drop(o)
    \/ MoreSteps /\ \E f \in finalizers : Finalize(f)
    \/ MoreSteps /\ \E line \in DeclaredResponseLines : Receive(line)

TransportSpec == Init /\ [][TransportNext]_vars

\* Launching the engine with initialize calls that may overlap: a call runs
\* up to its await, other calls and operations run, and the call resumes on
\* the 'spawn' or 'error' event of its child.
LaunchNext ==
    \/ MoreSteps /\ IpcInitializeCall
    \/ MoreSteps /\ IpcInitializeSpawned
    \/ MoreSteps /\ IpcInitializeSpawnError
    \/ MoreSteps /\ IpcInitializeRefused
    \/ MoreSteps /\ \E o \in Owners : Initialize(o)
    \/ MoreSteps /\ \E body \in PerformBodies : Perform(body)
    \/ MoreSteps /\ \E line \in DeclaredResponseLines : Receive(line)

LaunchSpec == Init /\ [][LaunchNext]_vars

(* ====================================================================== *)
(*                               Properties                               *)
(* ====================================================================== *)
\* Reading the step that produced the current state.
LastIsObject == last.op = "receive" /\ last.line.text = "object"
LastIsResponse == LastIsObject /\ "status" \in DOMAIN last.line.obj
LastIsRequest == LastIsObject /\ "status" \notin DOMAIN last.line.obj
LastIsMatchedResponse ==
    LastIsResponse /\ last.line.obj.id \in last.pre.responseHandlers
\* an inbound closure invocation: perform without action
LastIsClosurePerform ==
    /\ LastIsRequest
    /\ last.line.obj.procedure = "perform"
    /\ "action" \notin DOMAIN last.line.obj
LastParams ==
    IF "params" \in DOMAIN last.line.obj THEN last.line.obj.params ELSE EmptyObject
\* the core's tables and outputs are exactly as before the step
NothingChanged ==
    /\ responseHandlers = last.pre.responseHandlers
    /\ closureTargets = last.pre.closureTargets
    /\ promise = last.pre.promise
    /\ caller = last.pre.caller
    /\ sent = last.pre.sent
    /\ calls = last.pre.calls

\* C1: a response settles exactly the pending request whose id it carries
\* (resolving it with the response's result when it reports no error) and
\* leaves every other pending entry and promise as it was, whatever the
\* order in which responses arrive.
C1_CorrelationById ==
    LastIsMatchedResponse =>
        LET obj == last.line.obj
            id == obj.id
        IN  /\ responseHandlers = last.pre.responseHandlers \ {id}
            /\ last.pre.promise[id].state = "pending"
            /\ promise[id].state \in {"resolved", "rejected"}
            /\ "error" \notin DOMAIN obj =>
                   promise[id] = [state |-> "resolved", value |-> Get(obj, "result")]
            /\ \A j \in (DOMAIN promise) \ {id} :
                   promise[j] = last.pre.promise[j] /\ caller[j] = last.pre.caller[j]

\* C1 witness: two requests were outstanding and the response to the
\* second was delivered before the response to the first.
C1_Witness ==
    /\ LastIsMatchedResponse
    /\ last.line.obj.id = 1
    /\ Len(promise) >= 2
    /\ last.pre.promise[2].state = "resolved"
    /\ promise[1] = [state |-> "resolved", value |-> "ok"]

\* C2: an error response (status other than 200, with an error payload) to
\* a perform request rejects the caller with exactly that payload, and a
\* rejected call is never settled again.
C2_ErrorPayloadVerbatim ==
    /\ (/\ LastIsMatchedResponse
        /\ requests[last.line.obj.id].procedure = "perform"
        /\ last.line.obj.status # 200
        /\ "error" \in DOMAIN last.line.obj)
       => caller[last.line.obj.id] =
             [state |-> "rejected", value |-> last.line.obj.error]
    /\ \A i \in DOMAIN last.pre.caller :
          last.pre.caller[i].state = "rejected" => caller[i] = last.pre.caller[i]

C2_Witness ==
    /\ LastIsMatchedResponse
    /\ requests[last.line.obj.id].procedure = "perform"
    /\ last.line.obj.status = 500
    /\ caller[last.line.obj.id] = [state |-> "rejected", value |-> "busy"]

\* C3 (as claimed): a matched response resolves the request if and only if
\* its status is 200 and rejects it if and only if its status is another number.
C3_StatusDecides ==
    LastIsMatchedResponse =>
        LET id == last.line.obj.id
        IN  /\ promise[id].state = "resolved" <=> last.line.obj.status = 200
            /\ promise[id].state = "rejected" <=> last.line.obj.status # 200

\* C4 (as claimed): initialize completes successfully only on a status-200
\* response to its own init request, and fails with the engine's error
\* payload when that response is an error.
C4_InitializeFollowsResponse ==
    \A i \in DOMAIN requests :
        requests[i].procedure = "init" =>
            /\ (/\ caller[i].state = "fulfilled"
                /\ i \in DOMAIN last.pre.caller
                /\ last.pre.caller[i].state = "pending")
               => (LastIsResponse /\ last.line.obj.id = i /\ last.line.obj.status = 200)
            /\ (LastIsMatchedResponse /\ last.line.obj.id = i /\ last.line.obj.status # 200)
               => (/\ "error" \in DOMAIN last.line.obj
                   /\ caller[i] = [state |-> "rejected", value |-> last.line.obj.error])

\* C5: a line that is not JSON is dropped: receive does not raise, settles
\* or removes no pending entry, invokes no closure and writes nothing, so
\* the core is in the state it would be in had the line never arrived.
C5_MalformedLineDropped ==
    (last.op = "receive" /\ last.line.text = "garbage") =>
        ~last.raised /\ NothingChanged

\* C5 witness: a malformed line arrived while a request was pending and a
\* closure was registered.
C5_Witness ==
    /\ last.op = "receive"
    /\ last.line.text = "garbage"
    /\ responseHandlers # {}
    /\ DOMAIN closureTargets # {}

\* C6: a response whose id has no pending entry is dropped without an
\* exception and without any effect.
C6_OrphanResponseDropped ==
    (LastIsResponse /\ ~LastIsMatchedResponse) =>
        ~last.raised /\ NothingChanged

\* C6 witness: an orphan response arrived while another request was pending.
C6_Witness ==
    /\ LastIsResponse
    /\ last.line.obj.id = OrphanId
    /\ responseHandlers # {}

\* C7: an inbound perform (with id, without action) addressed to a
\* registered closure whose handler returns invokes that handler exactly
\* once with the request's params and writes exactly one response with the
\* request's id and status 200, carrying the handler's return value if any.
C7_ClosureRoundTrip ==
    (/\ LastIsClosurePerform
     /\ "id" \in DOMAIN last.line.obj
     /\ last.line.obj.target \in DOMAIN last.pre.closureTargets
     /\ last.pre.closureTargets[last.line.obj.target] # "throw")
    => LET target == last.line.obj.target
           handler == last.pre.closureTargets[target]
           expected == IF handler = "value"
                       THEN [nsrpc |-> 1, id |-> last.line.obj.id, status |-> 200,
                             result |-> HandlerResult]
                       ELSE [nsrpc |-> 1, id |-> last.line.obj.id, status |-> 200]
       IN  /\ ~last.raised
           /\ calls = Append(last.pre.calls,
                  [target |-> target, handler |-> handler, params |-> LastParams])
           /\ sent = Append(last.pre.sent, expected)

\* C7 witness: a registered closure was invoked with params "p1" and its
\* return value went back to the engine.
C7_Witness ==
    /\ LastIsClosurePerform
    /\ "id" \in DOMAIN last.line.obj
    /\ last.line.obj.target \in DOMAIN last.pre.closureTargets
    /\ LastParams = "p1"
    /\ Len(sent) > 0
    /\ sent[Len(sent)] = [nsrpc |-> 1, id |-> EngineId, status |-> 200,
                          result |-> HandlerResult]

\* a closure handler has thrown earlier in the run
SomeHandlerThrew == \E k \in 1..Len(last.pre.calls) : last.pre.calls[k].handler = "throw"

\* C8: when the handler throws, receive does not raise; one response with
\* the request's id, status 202 and an error payload is written; the
\* closure registry and the correlation table are unchanged; and a closure
\* invocation arriving after a throw is still invoked and answered.
C8_HandlerThrowContained ==
    /\ (/\ LastIsClosurePerform
        /\ "id" \in DOMAIN last.line.obj
        /\ last.line.obj.target \in DOMAIN last.pre.closureTargets
        /\ last.pre.closureTargets[last.line.obj.target] = "throw")
       => /\ ~last.raised
          /\ sent = Append(last.pre.sent,
                 [nsrpc |-> 1, id |-> last.line.obj.id, status |-> 202,
                  error |-> HandlerError])
          /\ closureTargets = last.pre.closureTargets
          /\ responseHandlers = last.pre.responseHandlers
          /\ promise = last.pre.promise
    /\ (/\ LastIsClosurePerform
        /\ "id" \in DOMAIN last.line.obj
        /\ last.line.obj.target \in DOMAIN last.pre.closureTargets
        /\ SomeHandlerThrew)
       => /\ Len(calls) = Len(last.pre.calls) + 1
          /\ Len(sent) = Len(last.pre.sent) + 1
          /\ sent[Len(sent)].id = last.line.obj.id

\* C8 witness: the same throwing closure was invoked again after it threw.
C8_Witness ==
    /\ LastIsClosurePerform
    /\ "id" \in DOMAIN last.line.obj
    /\ last.line.obj.target \in DOMAIN closureTargets
    /\ closureTargets[last.line.obj.target] = "throw"
    /\ SomeHandlerThrew
    /\ sent[Len(sent)].status = 202

\* C9: an inbound perform (with id, without action) addressed to a target
\* that is not registered is answered with status 404 and the request's id;
\* no handler is invoked and receive does not raise.
C9_UnknownTarget404 ==
    (/\ LastIsClosurePerform
     /\ "id" \in DOMAIN last.line.obj
     /\ last.line.obj.target \notin DOMAIN last.pre.closureTargets)
    => /\ ~last.raised
       /\ calls = last.pre.calls
       /\ sent = Append(last.pre.sent,
              [nsrpc |-> 1, id |-> last.line.obj.id, status |-> 404,
               error |-> "TargetNotFound"])

\* C9 witness: the target was registered once, its owner was finalized,
\* and a perform for it arrived afterwards.
C9_Witness ==
    /\ LastIsClosurePerform
    /\ "id" \in DOMAIN last.line.obj
    /\ last.line.obj.target \notin DOMAIN closureTargets
    /\ last.line.obj.target < nextTarget
    /\ sent[Len(sent)].status = 404

\* an inbound init, release or action-style perform carrying an id
LastIsUnimplemented ==
    /\ LastIsRequest
    /\ "id" \in DOMAIN last.line.obj
    /\ \/ last.line.obj.procedure \in {"init", "release"}
       \/ last.line.obj.procedure = "perform" /\ "action" \in DOMAIN last.line.obj

\* C10: an inbound init, release or action-style perform is not executed:
\* it is answered with status 501 and the request's id, no closure handler
\* is invoked (even when the target is a registered closure) and neither
\* table changes.
C10_NotImplemented501 ==
    LastIsUnimplemented =>
        /\ ~last.raised
        /\ Len(sent) = Len(last.pre.sent) + 1
        /\ \A k \in 1..Len(last.pre.sent) : sent[k] = last.pre.sent[k]
        /\ sent[Len(sent)].id = last.line.obj.id
        /\ sent[Len(sent)].status = 501
        /\ "error" \in DOMAIN sent[Len(sent)]
        /\ calls = last.pre.calls
        /\ closureTargets = last.pre.closureTargets
        /\ responseHandlers = last.pre.responseHandlers
        /\ promise = last.pre.promise

\* C10 witness: an action-style perform named a registered closure.
C10_Witness ==
    /\ LastIsUnimplemented
    /\ last.line.obj.procedure = "perform"
    /\ last.line.obj.target \in DOMAIN closureTargets
    /\ sent[Len(sent)].status = 501

\* an inbound request with an id that is not a closure invocation: a
\* procedure the host has no implementation for
LastIsNotServed ==
    /\ LastIsRequest
    /\ "id" \in DOMAIN last.line.obj
    /\ ~LastIsClosurePerform

\* C11 (as claimed): every inbound request that carries an id and names a
\* procedure the host does not implement, manual-release and names outside
\* the closed set included, is answered with exactly one error response
\* carrying that id.
C11_UnservedRequestAnswered ==
    LastIsNotServed =>
        /\ Len(sent) = Len(last.pre.sent) + 1
        /\ sent[Len(sent)].id = last.line.obj.id
        /\ "error" \in DOMAIN sent[Len(sent)]

\* Reading the lifecycle of a closure target the host has handed out.
IssuedTargets == 1..(nextTarget - 1)
\* the removal callback of target t has not run yet
RemovalPending(t) ==
    \E f \in finalizers : f.kind = "closure" /\ f.target = t
\* the owner target t was registered with is still reachable
OwnerReachable(t) ==
    \E f \in finalizers : f.kind = "closure" /\ f.target = t /\ Reachable(f.owner)
\* an inbound closure invocation addressed to a target the host handed out
LastIsPerformOfIssued ==
    LastIsClosurePerform /\ last.line.obj.target \in IssuedTargets
LastHandlerInvoked ==
    /\ Len(calls) = Len(last.pre.calls) + 1
    /\ calls[Len(calls)].target = last.line.obj.target
    /\ calls[Len(calls)].params = LastParams
LastTargetNotFound ==
    /\ calls = last.pre.calls
    /\ "id" \in DOMAIN last.line.obj =>
           sent = Append(last.pre.sent,
                   [nsrpc |-> 1, id |-> last.line.obj.id, status |-> 404,
                    error |-> "TargetNotFound"])

\* C12 (as claimed): an inbound perform to a closure's target invokes the
\* handler in every state where the owner is reachable, and yields
\* target-not-found in every state where the owner is no longer reachable.
C12_HandledExactlyWhileReachable ==
    LastIsPerformOfIssued =>
        IF OwnerReachable(last.line.obj.target)
        THEN LastHandlerInvoked
        ELSE LastTargetNotFound

\* C12 (amended): a closure registration is in the registry from
\* registerClosure until the finalization callback of its owner has run.
\* So an inbound perform to its target invokes the handler in every state
\* where the owner is reachable and also while the owner is unreachable but
\* the callback has not run yet; once the callback has run the perform
\* yields target-not-found and invokes nothing.
C12_HandledUntilFinalized ==
    /\ \A t \in IssuedTargets :
          /\ t \in DOMAIN closureTargets <=> RemovalPending(t)
          /\ OwnerReachable(t) => t \in DOMAIN closureTargets
    /\ LastIsPerformOfIssued =>
          IF RemovalPending(last.line.obj.target)
          THEN LastHandlerInvoked
          ELSE LastTargetNotFound

\* C12 witness: the owner was already unreachable, its callback had not
\* run, and the perform still invoked the handler.
C12_Witness ==
    /\ LastIsPerformOfIssued
    /\ ~OwnerReachable(last.line.obj.target)
    /\ RemovalPending(last.line.obj.target)
    /\ LastHandlerInvoked

\* C13: once the removal callback of a closure registration has run, the
\* target is not in the registry in any later state (no later registration
\* gets that identifier), and every inbound perform addressed to it invokes
\* no handler, does not raise, and is answered target-not-found.
C13_RemovedStaysRemoved ==
    /\ \A t \in removed : t \notin DOMAIN closureTargets
    /\ (LastIsClosurePerform /\ last.line.obj.target \in removed)
       => ~last.raised /\ LastTargetNotFound

\* C13 witness: a perform with an id arrived for a removed target and was
\* answered 404 without a handler call.
C13_Witness ==
    /\ LastIsClosurePerform
    /\ last.line.obj.target \in removed
    /\ "id" \in DOMAIN last.line.obj
    /\ calls = last.pre.calls
    /\ sent[Len(sent)].status = 404

\* Reading the release traffic of a remote target.
\* ids of the requests of a procedure issued for target t
RequestIds(procedure, t) ==
    {i \in DOMAIN requests :
        requests[i].procedure = procedure /\ Get(requests[i], "target") = t}
\* positions of the request lines of a procedure written for target t
WrittenAt(procedure, t) ==
    {k \in DOMAIN sent :
        Get(sent[k], "procedure") = procedure /\ Get(sent[k], "target") = t}
RemoteTargets == {RemoteTarget(o) : o \in Owners}

\* C14: for every target created with NSRPC.initialize at most one
\* automatic release request is issued, hence at most one is written to the
\* transport, whatever operations and finalizations the run contains.
C14_AtMostOneAutomaticRelease ==
    \A t \in RemoteTargets :
        /\ Cardinality(RequestIds("release", t)) <= 1
        /\ Cardinality(WrittenAt("release", t)) <= 1

\* C14 witness: the release of a target was written and the run went on
\* with a further operation.
C14_Witness ==
    /\ \E t \in RemoteTargets : Cardinality(WrittenAt("release", t)) = 1
    /\ last.op # "finalize"
    /\ \E t \in RemoteTargets : WrittenAt("release", t) \subseteq DOMAIN last.pre.sent

\* the release destructor registered by initialize for owner o has not run
ReleasePending(o) ==
    [owner |-> o, kind |-> "release", target |-> RemoteTarget(o)] \in finalizers
ReleaseWritten(o) == WrittenAt("release", RemoteTarget(o)) # {}
\* no release request exists for a target whose owner is still reachable
NoReleaseWhileReachable ==
    \A o \in Owners : RequestIds("release", RemoteTarget(o)) # {} => ~reachable[o]

\* C15 (as claimed): once the owner passed to initialize is unreachable, a
\* release request for its target is eventually written to the transport,
\* and none is written while the owner is reachable.
C15_ReleaseEventuallyWritten ==
    /\ []NoReleaseWhileReachable
    /\ \A o \in Owners :
          (~reachable[o] /\ InitIds(o) # {}) ~> ReleaseWritten(o)

\* C15 (amended): once the owner passed to initialize is unreachable, its
\* release destructor eventually runs, and when the init request of its
\* target had been written to the transport (the engine was launched) the
\* release request for that target is eventually written too; no release
\* request is issued while the owner is reachable.
C15_ReleaseWrittenWhenLaunched ==
    /\ []NoReleaseWhileReachable
    /\ \A o \in Owners :
          (~reachable[o] /\ InitIds(o) # {}) ~> ~ReleasePending(o)
    /\ \A o \in Owners :
          (~reachable[o] /\ WrittenAt("init", RemoteTarget(o)) # {})
              ~> ReleaseWritten(o)

\* C15 witness: the destructor of an unreachable owner ran with the engine
\* launched and wrote the release request.
C15_Witness ==
    /\ last.op = "finalize"
    /\ last.kind = "release"
    /\ \E o \in Owners : ~reachable[o] /\ last.target = RemoteTarget(o)
    /\ Len(sent) = Len(last.pre.sent) + 1
    /\ sent[Len(sent)].procedure = "release"
    /\ sent[Len(sent)].target = last.target

\* the manual-release of owner o's target (Recorder.cancel) was acknowledged
ManualReleaseAcknowledged(o) ==
    \E i \in RequestIds("manual-release", RemoteTarget(o)) :
        promise[i].state = "resolved"

\* C16 (as claimed): when cancel has been sent and acknowledged while the
\* recorder is still reachable, no release request for that target is
\* written at any later time.
C16_NoReleaseAfterCancel ==
    \A o \in Owners :
        []((ManualReleaseAcknowledged(o) /\ reachable[o]) => []~ReleaseWritten(o))

\* Reading the release requests of the run.
IsRelease(i) == requests[i].procedure \in {"release", "manual-release"}
\* the step issued a release: NSRPC.manualRelease or the release destructor
LastIssuedRelease ==
    \/ last.op = "manualRelease"
    \/ last.op = "finalize" /\ last.kind = "release"
\* the promises and callers that existed before the step, except id i
OthersUntouched(i) ==
    \A j \in (DOMAIN last.pre.promise) \ {i} :
        promise[j] = last.pre.promise[j] /\ caller[j] = last.pre.caller[j]

\* C17: each release (manual or automatic) is a request of its own: it
\* gets a fresh id and a pending entry of its own and touches no other
\* entry and no closure registration; the response to a release removes
\* that release's entry only; and the entry of a release disappears by
\* nothing but a response carrying its id.
C17_ReleasesIndependent ==
    /\ LastIssuedRelease =>
          LET id == Len(requests)
          IN  /\ IsRelease(id)
              /\ id \notin DOMAIN last.pre.promise
              /\ id \notin last.pre.responseHandlers
              /\ responseHandlers = last.pre.responseHandlers \cup {id}
              /\ promise[id].state = "pending"
              /\ OthersUntouched(id)
              /\ closureTargets = last.pre.closureTargets
    /\ (LastIsMatchedResponse /\ IsRelease(last.line.obj.id)) =>
          /\ responseHandlers = last.pre.responseHandlers \ {last.line.obj.id}
          /\ OthersUntouched(last.line.obj.id)
          /\ closureTargets = last.pre.closureTargets
    /\ \A i \in last.pre.responseHandlers \ responseHandlers :
          IsRelease(i) => LastIsResponse /\ last.line.obj.id = i

\* C17 witness: a manual-release and the automatic release of the same
\* target were both pending, and the response to one of them arrived and
\* left the other pending.
C17_Witness ==
    /\ LastIsMatchedResponse
    /\ \E o \in Owners :
          \E m \in RequestIds("manual-release", RemoteTarget(o)),
             r \in RequestIds("release", RemoteTarget(o)) :
              /\ {m, r} \subseteq last.pre.responseHandlers
              /\ last.line.obj.id \in {m, r}
              /\ responseHandlers \cap {m, r} = {m, r} \ {last.line.obj.id}

ManualReleaseIds == {i \in DOMAIN requests : requests[i].procedure = "manual-release"}
\* the step delivered a response carrying id i
LastIsResponseTo(i) == LastIsResponse /\ last.line.obj.id = i
\* the call that issued request i completed during the step
LastSettled(i) ==
    /\ caller[i].state # "pending"
    /\ i \in DOMAIN last.pre.caller => last.pre.caller[i].state = "pending"

\* C18 (as claimed): the promise returned by manualRelease settles only
\* when the response to its own request is received; it resolves when that
\* response is a success (status 200), and nothing else resolves it.
C18_ManualReleaseFollowsOwnResponse ==
    \A i \in ManualReleaseIds :
        /\ LastSettled(i) => LastIsResponseTo(i)
        /\ (LastIsResponseTo(i) /\ last.pre.caller[i].state = "pending"
             /\ last.line.obj.status = 200)
           => caller[i].state = "fulfilled"
        /\ (LastSettled(i) /\ caller[i].state = "fulfilled")
           => (LastIsResponseTo(i) /\ last.line.obj.status = 200)

\* the step called sendRequest
LastIssuedRequest ==
    \/ last.op \in {"initialize", "perform", "manualRelease"}
    \/ last.op = "finalize" /\ last.kind = "release"
\* the step handed a request line to the transport
LastWroteRequest ==
    /\ LastIssuedRequest
    /\ Len(sent) = Len(last.pre.sent) + 1

LinesOf(i) == {k \in DOMAIN sent : "procedure" \in DOMAIN sent[k] /\ sent[k].id = i}

\* C20: no retry and no timeout.  A request is written when it is issued
\* (once the engine is launched) and never again; and a request that is
\* pending stays pending, with its entry in the table and its caller
\* waiting, through every step that is not the arrival of a response
\* carrying its id.
C20_NoRetryNoTimeout ==
    /\ \A i \in DOMAIN requests : Cardinality(LinesOf(i)) <= 1
    /\ (LastIssuedRequest /\ childProcess = "running") =>
          /\ sent = Append(last.pre.sent,
                        JSONstringify([nsrpc |-> 1, id |-> Len(requests)]
                                      @@ requests[Len(requests)]))
    /\ ~LastIssuedRequest =>
          \A i \in DOMAIN requests : LinesOf(i) \subseteq DOMAIN last.pre.sent
    /\ \A i \in DOMAIN last.pre.promise :
          (last.pre.promise[i].state = "pending" /\ ~LastIsResponseTo(i)) =>
              /\ promise[i].state = "pending"
              /\ i \in responseHandlers
              /\ caller[i] = last.pre.caller[i]

\* C20 witness: a written request got no response while two other lines
\* arrived; it is still pending.
C20_Witness ==
    /\ last.op = "receive"
    /\ received = MaxInbound
    /\ \E i \in DOMAIN requests :
          /\ Cardinality(LinesOf(i)) = 1
          /\ promise[i].state = "pending"
          /\ caller[i].state = "pending"
          /\ i \in responseHandlers

\* requests whose caller is still waiting and whose entry is in the table
PendingRequests == {i \in responseHandlers : caller[i].state = "pending"}

\* the step leaves the requests ids pending, with their entries
StayPending(ids) ==
    \A i \in ids : i \in responseHandlers' /\ caller'[i].state = "pending"

\* C22 (as claimed): once the engine has exited, every request that was
\* written to it and is pending remains pending, with its entry in the
\* table, in every later step of the run.
C22_PendingForeverAfterExit ==
    [][(childProcess = "exited" \/ childProcess = "closed") =>
         StayPending(PendingRequests \cap WrittenIds)]_vars

\* C22: the 'error', 'exit' and 'close' events of a launched engine settle
\* nothing and leave the correlation table as it is; a request pending at
\* the exit can still be settled by a response the engine wrote before it
\* exited, and once the engine's streams have closed every pending request
\* stays pending, with its entry, for the rest of the run.
C22_ProcessEventsSettleNothing ==
    /\ [](last.op = "processEvent" =>
            /\ last.pre.childProcess # "undefined"
            /\ NothingChanged)
    /\ [][childProcess = "closed" => StayPending(PendingRequests)]_vars
C22_Witness ==
    /\ last.op = "processEvent"
    /\ last.event = "close"
    /\ PendingRequests \cap WrittenIds # {}

\* C25: an inbound closure perform without id is fire-and-forget: the
\* registered handler is invoked with the request's params, and no line is
\* written for it, whether the handler returns, throws, or the target is
\* not registered; nothing is raised to the line handler either.
C25_NoIdPerformIsFireAndForget ==
    (LastIsClosurePerform /\ "id" \notin DOMAIN last.line.obj) =>
        /\ sent = last.pre.sent
        /\ ~last.raised
        /\ IF last.line.obj.target \in DOMAIN last.pre.closureTargets
           THEN LastHandlerInvoked
           ELSE calls = last.pre.calls
        /\ responseHandlers = last.pre.responseHandlers
        /\ caller = last.pre.caller
C25_Witness ==
    /\ LastIsClosurePerform
    /\ "id" \notin DOMAIN last.line.obj
    /\ last.line.obj.target \in DOMAIN last.pre.closureTargets
    /\ last.pre.closureTargets[last.line.obj.target] = "throw"
    /\ last.pre.childProcess = "running"
    /\ LastHandlerInvoked

\* the call that issued the last request, as its caller sees it
LastCall == caller[Len(caller)]
LastCallByApplication == last.op \in {"initialize", "perform", "manualRelease"}

\* C26 (as claimed): a write fails whenever the engine cannot read it:
\* before the engine is launched and after it has exited.  A request issued
\* then is rejected with the transport's error and no line is handed over.
C26_WriteFailsWithoutEngine ==
    (LastIssuedRequest /\ last.pre.childProcess # "running") =>
        /\ LastCall = [state |-> "rejected", value |-> MissingStdin]
        /\ sent = last.pre.sent

\* C27: when the write throws because there is no input stream, the call
\* in progress (initialize, perform, manualRelease) is rejected with that
\* error at once; it does not stay pending.
C27_WriteFailureRejectsCall ==
    (LastCallByApplication /\ last.pre.childProcess = "undefined") =>
        /\ LastCall = [state |-> "rejected", value |-> MissingStdin]
        /\ sent = last.pre.sent
        /\ Len(caller) = Len(last.pre.caller) + 1
C27_Witness ==
    /\ last.op = "perform"
    /\ last.pre.childProcess = "undefined"
    /\ LastCall = [state |-> "rejected", value |-> MissingStdin]
    /\ \E i \in 1..(Len(caller) - 1) :
           /\ requests[i].procedure = "init"
           /\ caller[i] = [state |-> "rejected", value |-> MissingStdin]

\* C28: a launch that fails before 'spawn' raises the launch error and
\* leaves the instance as constructed: no child process, no line handler,
\* nothing written; so the next initialize is not refused but launches.
C28_FailedLaunchLeavesUninitialized ==
    last.op = "ipcInitializeFailed" =>
        /\ last.raised = LaunchError
        /\ childProcess = "undefined"
        /\ lineHandlers = 0
        /\ NothingChanged
        /\ ENABLED IpcInitialize
        /\ ~ENABLED IpcInitializeRefused
C28_Witness ==
    /\ last.op = "ipcInitializeFailed"
    /\ last.pre.childProcess = "undefined"
    /\ caller # <<>>
    /\ ENABLED IpcInitialize

\* C30: once a child process is recorded, every initialize call raises
\* 'Already initialized' and changes nothing: the child process and the
\* line handler stay the ones of the first launch, whether the engine is
\* still running or not.
C30_SecondInitializeRefused ==
    /\ last.op = "ipcInitializeRefused" =>
           /\ last.raised = AlreadyInitialized
           /\ childProcess = last.pre.childProcess
           /\ lineHandlers = last.pre.lineHandlers
           /\ NothingChanged
    /\ childProcess # "undefined" =>
           /\ ~ENABLED IpcInitialize
           /\ ENABLED IpcInitializeRefused
           /\ lineHandlers = 1
C30_Witness ==
    /\ last.op = "ipcInitializeRefused"
    /\ childProcess = "running"
    /\ lineHandlers = 1
    /\ PendingRequests # {}

\* s is an initial part of t
IsPrefix(s, t) == Len(s) <= Len(t) /\ SubSeq(t, 1, Len(s)) = s
\* the positions of the responses among the lines written
ResponsesWritten == {k \in DOMAIN sent : "status" \in DOMAIN sent[k]}

\* C23: inbound lines are handled one at a time, in arrival order, each to
\* completion: handling a line appends at most one handler invocation and
\* at most one response, which answers that very line, after everything
\* done for earlier lines; so the responses are written in the order in
\* which their requests arrived.
C23_LinesHandledInArrivalOrder ==
    /\ last.op = "receive" =>
           /\ IsPrefix(last.pre.sent, sent)
           /\ Len(sent) <= Len(last.pre.sent) + 1
           /\ IsPrefix(last.pre.calls, calls)
           /\ Len(calls) <= Len(last.pre.calls) + 1
           /\ Len(sent) > Len(last.pre.sent) =>
                  /\ LastIsRequest
                  /\ "status" \in DOMAIN sent[Len(sent)]
                  /\ sent[Len(sent)].id = last.line.obj.id
           /\ Len(calls) > Len(last.pre.calls) =>
                  /\ LastIsClosurePerform
                  /\ calls[Len(calls)].target = last.line.obj.target
    /\ \A k, l \in ResponsesWritten : k < l => sent[k].id < sent[l].id
C23_Witness ==
    /\ LastIsClosurePerform
    /\ Len(calls) = 2
    /\ Cardinality(ResponsesWritten) = 2
    /\ sent[Len(sent)].id = EngineId + 1
    /\ \E k \in ResponsesWritten : sent[k].id = EngineId /\ sent[k].status = 202

\* the request line that call i writes
RequestLine(i) == JSONstringify([nsrpc |-> 1, id |-> i] @@ requests[i])
\* every perform on a remote object comes after the init of that object
InitWrittenBeforePerform ==
    \A k \in DOMAIN sent :
        ("procedure" \in DOMAIN sent[k] /\ sent[k].procedure = "perform"
                                        /\ "target" \in DOMAIN sent[k]) =>
            \E j \in 1..(k - 1) :
                /\ "procedure" \in DOMAIN sent[j]
                /\ sent[j].procedure = "init"
                /\ sent[j].target = sent[k].target

\* C24 (as claimed): with the engine launched, each call of initialize,
\* perform or manualRelease writes exactly one line, its request; the
\* perform on a remote object is written after the init of that object;
\* and a call resolves when the response with status 200 to its request
\* arrives.
C24_OneLinePerCallResolvedOn200 ==
    /\ (LastCallByApplication /\ last.pre.childProcess = "running") =>
           sent = Append(last.pre.sent, RequestLine(last.id))
    /\ InitWrittenBeforePerform
    /\ \A i \in DOMAIN requests :
           (/\ LastIsResponseTo(i)
            /\ i \in last.pre.responseHandlers
            /\ last.line.obj.status = 200) =>
               caller[i].state = "fulfilled"

\* the ids that requests can get: one per call of the application and one
\* per automatic release
RequestIdSpace == 1..(MaxReq + MaxOwners)
\* requests whose line was handed to the transport
Written == {i \in DOMAIN requests : LinesOf(i) # {}}
\* a call that has completed keeps its outcome
SettledStaysSettled ==
    \A i \in DOMAIN last.pre.caller :
        last.pre.caller[i].state # "pending" => caller[i] = last.pre.caller[i]
\* every request written to the transport eventually receives a response
\* with its id
EveryWrittenRequestAnswered ==
    \A i \in RequestIdSpace : [](i \in Written => <>LastIsResponseTo(i))

\* C21 (as claimed): if every written request eventually receives a response
\* with its id, then every pending request is eventually settled, no request
\* is settled twice, and the correlation table is eventually empty for good.
C21_AnsweredRunsEmptyTheTable ==
    EveryWrittenRequestAnswered =>
        /\ \A i \in RequestIdSpace : [](i \in PendingRequests => <>(i \notin PendingRequests))
        /\ []SettledStaysSettled
        /\ <>[](responseHandlers = {})

\* the closure targets named in the params of an init request
ParamTargets(params) ==
    {params.onAbortInstance} \cup {params.schema[c] : c \in DOMAIN params.schema}

\* C29: when Recorder.newInstance sends the init request, every closure
\* target in its params (onAbortInstance and each replaced callback of the
\* schema) is registered; the call registers exactly these closures, one
\* per callback and exactly one for the abort notification, each under a
\* target of its own.
C29_TargetsRegisteredBeforeInit ==
    last.op = "newInstance" =>
        LET params == requests[last.id].params
        IN  /\ ParamTargets(params) \subseteq last.atWrite
            /\ last.atWrite \subseteq DOMAIN closureTargets
            /\ ParamTargets(params) =
                   DOMAIN closureTargets \ DOMAIN last.pre.closureTargets
            /\ Cardinality(ParamTargets(params)) =
                   Cardinality(DOMAIN params.schema) + 1
            /\ ParamTargets(params) \ {params.schema[c] : c \in DOMAIN params.schema}
                   = {params.onAbortInstance}
            /\ last.pre.childProcess = "running" =>
                   /\ Len(sent) = Len(last.pre.sent) + 1
                   /\ sent[Len(sent)].procedure = "init"
                   /\ sent[Len(sent)].params = params
C29_Witness ==
    /\ last.op = "newInstance"
    /\ last.pre.childProcess = "running"
    /\ DOMAIN requests[last.id].params.schema = {"segmentCallback"}
    /\ Cardinality(last.atWrite) = 2
    /\ sent[Len(sent)].params.onAbortInstance \in DOMAIN closureTargets

\* C32 (as claimed): when the write throws while sendRequest is sending,
\* the correlation table is as it was before the call: the failed request
\* has no entry.
C32_FailedWriteLeavesNoEntry ==
    (LastIssuedRequest /\ sent = last.pre.sent) =>
        /\ responseHandlers = last.pre.responseHandlers
        /\ Len(requests) \notin responseHandlers

\* C33 (as claimed): receive raises for no line that parses as JSON; a line
\* whose value is not an object is dropped, leaving the correlation table
\* and the closure registry as they were.
C33_NoRaiseOnParsedLine ==
    (last.op = "receive" /\ JSONparse(last.line).ok) =>
        /\ ~last.raised
        /\ JSONparse(last.line).type # "object" =>
               /\ responseHandlers = last.pre.responseHandlers
               /\ closureTargets = last.pre.closureTargets

\* C38: a request is settled at most once.  The first response with its id
\* settles it and removes its entry; a later response with the same id
\* finds no entry and changes nothing; a call that has completed keeps
\* its outcome through every step.
C38_SettledAtMostOnce ==
    /\ SettledStaysSettled
    /\ \A i \in DOMAIN last.pre.promise :
           last.pre.promise[i].state # "pending" => promise[i] = last.pre.promise[i]
    /\ LastIsMatchedResponse =>
           /\ last.line.obj.id \notin responseHandlers
           /\ promise[last.line.obj.id].state # "pending"
    /\ (LastIsResponse /\ ~LastIsMatchedResponse) =>
           /\ ~last.raised
           /\ NothingChanged
C38_Witness ==
    /\ LastIsResponse
    /\ last.line.obj.id \in DOMAIN last.pre.caller
    /\ last.line.obj.id \notin last.pre.responseHandlers
    /\ last.pre.caller[last.line.obj.id].state = "fulfilled"
    /\ "error" \in DOMAIN last.line.obj
    /\ last.pre.responseHandlers # {}

\* C39: inbound dispatch touches only the table the envelope's shape
\* selects.  A response (an object with a status key) invokes no closure,
\* leaves the closure registry alone and writes nothing; a request (an
\* object without one) adds, removes and settles no correlation entry.
C39_DispatchByShape ==
    /\ LastIsResponse =>
           /\ calls = last.pre.calls
           /\ closureTargets = last.pre.closureTargets
           /\ sent = last.pre.sent
    /\ LastIsRequest =>
           /\ responseHandlers = last.pre.responseHandlers
           /\ promise = last.pre.promise
           /\ caller = last.pre.caller
           /\ closureTargets = last.pre.closureTargets
C39_Witness ==
    /\ LastIsClosurePerform
    /\ LastHandlerInvoked
    /\ Len(sent) = Len(last.pre.sent) + 1
    /\ PendingRequests # {}

\* C34 (as claimed): a release request for a target is written only after
\* an init request for that target was written, and never for a target
\* whose init request was answered with an error.
C34_ReleaseOnlyAfterAcceptedInit ==
    \A o \in Owners :
        \A k \in WrittenAt("release", RemoteTarget(o)) :
            /\ \E j \in WrittenAt("init", RemoteTarget(o)) : j < k
            /\ \A i \in InitIds(o) : promise[i].state # "rejected"

\* the closure targets registered with owner o as lifecycle whose removal
\* callback has not run
ClosuresOf(o) ==
    {f.target : f \in {g \in finalizers : g.owner = o /\ g.kind = "closure"}}
\* Recorder.cancel was called for owner o
Cancelled(o) == RequestIds("manual-release", RemoteTarget(o)) # {}
\* the last line invoked a closure of a cancelled recorder that is still
\* reachable and whose cancel was acknowledged
LastIsPerformAfterCancel ==
    /\ LastIsClosurePerform
    /\ \E o \in Owners :
           /\ reachable[o]
           /\ ManualReleaseAcknowledged(o)
           /\ last.line.obj.target \in ClosuresOf(o)

\* C35 (as claimed): cancel leaves the closure registry unchanged, and an
\* inbound perform for a closure of the recorder, after the acknowledged
\* cancel and while the recorder is reachable, invokes the handler and is
\* answered with status 200.
C35_PerformAfterCancelAnswered200 ==
    /\ last.op = "manualRelease" => closureTargets = last.pre.closureTargets
    /\ LastIsPerformAfterCancel =>
           /\ LastHandlerInvoked
           /\ Len(sent) = Len(last.pre.sent) + 1
           /\ sent[Len(sent)].status = 200

\* C35: Recorder.cancel leaves the closure registry as it is.  While a
\* cancelled recorder is reachable its closures stay registered, and an
\* inbound perform for one of them after the acknowledged cancel invokes
\* the handler and, when the request carries an id, is answered as before
\* the cancel: with status 200 when the handler returns, with 202 when the
\* handler itself throws.
C35_CancelKeepsClosures ==
    /\ last.op = "manualRelease" => closureTargets = last.pre.closureTargets
    /\ \A o \in Owners :
           (Cancelled(o) /\ reachable[o]) => ClosuresOf(o) \subseteq DOMAIN closureTargets
    /\ LastIsPerformAfterCancel =>
           /\ LastHandlerInvoked
           /\ "id" \in DOMAIN last.line.obj =>
                  /\ Len(sent) = Len(last.pre.sent) + 1
                  /\ sent[Len(sent)].id = last.line.obj.id
                  /\ sent[Len(sent)].status =
                         IF closureTargets[last.line.obj.target] = "throw" THEN 202 ELSE 200
C35_Witness ==
    /\ LastIsPerformAfterCancel
    /\ "id" \in DOMAIN last.line.obj
    /\ LastHandlerInvoked
    /\ sent[Len(sent)].status = 200

\* Who awaits the promise of request i.  The calls of the application are
\* awaited by the application; an automatic release is awaited only by the
\* destructor, whose own promise the finalization registry callback awaits
\* and then returns to the registry, which drops it.
Awaited(i) == requests[i].procedure # "release"
\* rejections that reach no caller and no handler
UnhandledRejections ==
    {i \in DOMAIN requests : caller[i].state = "rejected" /\ ~Awaited(i)}

\* C36 (as claimed): when the engine answers an automatic release with an
\* error response, the rejection is received by some caller or handler of
\* the host.
C36_ReleaseRejectionHandled ==
    \A i \in DOMAIN requests :
        (requests[i].procedure = "release" /\ promise[i].state = "rejected") =>
            i \notin UnhandledRejections

\* C37 (as claimed): newInstance leaves the caller's schema object as it
\* was given: every callback field still holds the caller's function.
C37_SchemaNotMutated ==
    last.op = "newInstance" =>
        /\ last.callerSchema = last.given
        /\ \A c \in DOMAIN last.callerSchema : last.callerSchema[c] = CallerFunction

\* C31: whatever the interleaving of initialize calls on one IpcRecordKit,
\* a second call started while the first still waits for 'spawn' included,
\* at most one engine process has been spawned and at most one stdout line
\* handler feeds NSRPC.receive. Every child that emitted 'spawn' got one
\* line handler, so lineHandlers counts both.
C31_AtMostOneEngine == lineHandlers <= 1

====
